---- MODULE Spec2Model ----
(***************************************************************************)
(* A model of isrc.py: the ISRC validator (validate_isrc), the corpus      *)
(* scanner (validate_isrcs), the year bucketing of                          *)
(* plot_isrc_year_distribution and the main sequence of the script.        *)
(*                                                                         *)
(* Text is modelled by TLA+ strings; Len, SubSeq and \o act on them as on  *)
(* sequences of characters.  A file is a record [kind, data]; the file     *)
(* system maps path names to files.                                         *)
(***************************************************************************)
EXTENDS Integers, Sequences, FiniteSets, TLC

VARIABLES
    args,           \* the parsed command line: input_file, output_file, dir_input
    fs,             \* the file system: path -> [kind, data]
    fs0,            \* the file system when the program started (history)
    pc,             \* position of the script
    input_file,     \* validate_isrcs' local input_file
    rm_input_file,  \* validate_isrcs' local rm_input_file
    lines,          \* the lines the iterator over isrc_file yields
    idx,            \* number of lines the loop has consumed
    valid_isrcs,    \* accumulator, a string
    invalid_isrcs,  \* accumulator, a string
    cpt_invalid,    \* counter of invalid lines
    written,        \* paths this run has opened for writing (history)
    diag,           \* the last message printed
    today,          \* date.today().year
    years,          \* plot_isrc_year_distribution's list years
    year_file,      \* the path plot_isrc_year_distribution opened
    isrc,           \* plot_isrc_country_repartition's list isrc
    country_file,   \* the path plot_isrc_country_repartition opened
    v_arg,          \* argument of a direct call of validate_isrc
    v_ret           \* what that call returned

vars == <<args, fs, fs0, pc, input_file, rm_input_file, lines, idx, valid_isrcs,
          invalid_isrcs, cpt_invalid, written, diag, today, years, year_file,
          isrc, country_file, v_arg, v_ret>>

(***************************************************************************)
(* Bounds of the model.                                                    *)
(***************************************************************************)
\* longest string handed directly to validate_isrc
MaxLen == 13
\* most lines in an input file or names in a directory
MaxLines == 3
\* range of the calendar year the program is run in
MinYear == 1999
MaxYear == 2102

(***************************************************************************)
(* Strings, Python style.                                                  *)
(***************************************************************************)
NL == "\n"

Min(a, b) == IF a <= b THEN a ELSE b

\* s[i] for a 0-based index i that is in range
CharAt(s, i) == SubSeq(s, i + 1, i + 1)

\* s[a:b] for 0 <= a, 0 <= b: out-of-range bounds are clamped, never an error
Slice(s, a, b) ==
    IF a >= Min(b, Len(s)) THEN "" ELSE SubSeq(s, a + 1, Min(b, Len(s)))

\* The characters of the model in ASCII order; only the order matters.
Ascii == "\n-./0123456789:@ABCDEFGHIJKLMNOPQRSTUVWXYZ[^abcdefghijklmnopqrstuvwxyz{"

AsciiChars == {SubSeq(Ascii, i, i) : i \in 1..Len(Ascii)}

Ord == [c \in AsciiChars |-> CHOOSE i \in 1..Len(Ascii) : SubSeq(Ascii, i, i) = c]

\* a character range lo-hi of a regular expression's bracket class
InRange(c, lo, hi) == Ord[lo] <= Ord[c] /\ Ord[c] <= Ord[hi]

(***************************************************************************)
(* validate_isrc: re.compile("[a-zA-Z]{2}[a-zA-Z0-9]{3}[0-9]{7}").match     *)
(***************************************************************************)
\* a bracket class is a set of ranges; the pattern a sequence of class{n}
ClassLetter == {<<"a", "z">>, <<"A", "Z">>}
ClassAlnum == {<<"a", "z">>, <<"A", "Z">>, <<"0", "9">>}
ClassDigit == {<<"0", "9">>}

InClass(c, cls) == \E r \in cls : InRange(c, r[1], r[2])

ISRCPattern ==
    << [cls |-> ClassLetter, n |-> 2],
       [cls |-> ClassAlnum, n |-> 3],
       [cls |-> ClassDigit, n |-> 7] >>

\* pattern.match(s): the pattern must match at the start of s; nothing
\* anchors its end.  pos is the 0-based offset reached so far.
RECURSIVE MatchFrom(_, _, _)
MatchFrom(pat, s, pos) ==
    IF pat = <<>> THEN TRUE
    ELSE LET item == Head(pat) IN
         /\ pos + item.n <= Len(s)
         /\ \A k \in 0..(item.n - 1) : InClass(CharAt(s, pos + k), item.cls)
         /\ MatchFrom(Tail(pat), s, pos + item.n)

ReMatch(pat, s) == IF MatchFrom(pat, s, 0) THEN "Match" ELSE "None"

\* The value validate_isrc returns: a match object, None or False.
\* (variant: the length test left out)
validate_isrc_nolen(s) == ReMatch(ISRCPattern, s)
validate_isrc(s) ==
    IF Len(s) = 12 THEN ReMatch(ISRCPattern, s) ELSE "False"

\* Python truth value of such a result
Truthy(v) == v = "Match"

(***************************************************************************)
(* Files.                                                                  *)
(***************************************************************************)
VALID == "ISRC_valid.txt"
TMP == "tmpISRCs.txt"
Paths == {"isrc.txt", "ISRC_invalid.txt", VALID, TMP, "corpus"}

NoFile == [kind |-> "none", data |-> ""]
File(d) == [kind |-> "file", data |-> d]
\* a directory; data is what `ls` prints for it, one entry name per line
Dir(listing) == [kind |-> "dir", data |-> listing]

\* os.path.isfile, os.path.exists
isfile(f, p) == f[p].kind = "file"
exists(f, p) == f[p].kind # "none"

\* 1-based position of the first newline of s, 0 if it has none
FirstNL(s) ==
    IF \E i \in 1..Len(s) : SubSeq(s, i, i) = NL
    THEN CHOOSE i \in 1..Len(s) :
            /\ SubSeq(s, i, i) = NL
            /\ \A j \in 1..(i - 1) : SubSeq(s, j, j) # NL
    ELSE 0

\* for line in f: each line keeps its newline; a last line may lack one
RECURSIVE SplitLines(_)
SplitLines(s) ==
    IF s = "" THEN <<>>
    ELSE LET k == FirstNL(s) IN
         IF k = 0 \/ k = Len(s) THEN <<s>>
         ELSE <<SubSeq(s, 1, k)>> \o SplitLines(SubSeq(s, k + 1, Len(s)))

\* what ls p prints: the entries of a directory, the name of a file,
\* nothing (and a message on stderr) for a path that does not exist
LsOutput(f, p) ==
    IF f[p].kind = "dir" THEN f[p].data
    ELSE IF f[p].kind = "file" THEN p \o NL
    ELSE ""

\* (variant: any existing path is taken for a directory)
abs_path_dir_exists_only(f, dir_name) == exists(f, dir_name)
\* abs_path_dir's test: the path exists and is not a regular file
abs_path_dir_ok(f, dir_name) == ~isfile(f, dir_name) /\ exists(f, dir_name)

(***************************************************************************)
(* The loop body of validate_isrcs.                                        *)
(***************************************************************************)
\* (variant: the line's length is not looked at)
LineIsValid_first12(line) == Truthy(validate_isrc(Slice(line, 0, 12)))
\* the test of line 263
LineIsValid(line) ==
    Len(line) = 13 /\ Truthy(validate_isrc(Slice(line, 0, 12)))

\* (variant: the newline-terminated 12-character slice is stored)
NextValid_slice(acc, line) ==
    IF LineIsValid(line) THEN acc \o Slice(line, 0, 12) \o NL ELSE acc
\* (variant: the newest line is put first)
NextValid_front(acc, line) ==
    IF LineIsValid(line) THEN line \o acc ELSE acc
\* valid_isrcs after the loop body has run on line
NextValid(acc, line) ==
    IF LineIsValid(line) THEN acc \o line ELSE acc

\* invalid_isrcs after the loop body has run on line
NextInvalid(acc, line) ==
    IF LineIsValid(line) THEN acc ELSE acc \o line

\* (variant: lines that are too short are not counted)
NextCpt_skipshort(cpt, line) ==
    IF LineIsValid(line) \/ Len(line) < 13 THEN cpt ELSE cpt + 1
\* cpt_invalid after the loop body has run on line
NextCpt(cpt, line) ==
    IF LineIsValid(line) THEN cpt ELSE cpt + 1

(***************************************************************************)
(* plot_isrc_year_distribution.                                            *)
(***************************************************************************)
Digits == "0123456789"

IsDigit(c) == \E i \in 1..10 : SubSeq(Digits, i, i) = c

DigitValue(c) == (CHOOSE i \in 1..10 : SubSeq(Digits, i, i) = c) - 1

\* int(s) is defined for a non-empty string of digits (the model has no
\* blanks, signs or underscores in a year field); otherwise ValueError
IntDefined(s) == Len(s) > 0 /\ \A i \in 1..Len(s) : IsDigit(SubSeq(s, i, i))

RECURSIVE ParseInt(_)
ParseInt(s) ==
    IF Len(s) = 0 THEN 0
    ELSE 10 * ParseInt(SubSeq(s, 1, Len(s) - 1)) + DigitValue(SubSeq(s, Len(s), Len(s)))

\* the row csv.reader yields for a line: its one field, or no field at all
CsvRow(line) ==
    LET body == IF Len(line) > 0 /\ SubSeq(line, Len(line), Len(line)) = NL
                THEN Slice(line, 0, Len(line) - 1) ELSE line
    IN IF body = "" THEN <<>> ELSE <<body>>

\* (variant: the current year itself is rolled back too)
BucketYear_ge(code, cur) ==
    LET year == ParseInt(Slice(code, 5, 7)) + 2000
    IN IF year >= cur THEN year - 100 ELSE year
\* the loop body of lines 190-192 on the field isrc[0]
BucketYear(code, cur) ==
    LET year == ParseInt(Slice(code, 5, 7)) + 2000
    IN IF year > cur THEN year - 100 ELSE year

\* a row the loop of lines 189-193 gets through without an exception
RowOK(row) == Len(row) > 0 /\ IntDefined(Slice(row[1], 5, 7))

(***************************************************************************)
(* The inputs of a run.                                                    *)
(***************************************************************************)
\* contents of candidate lines: a valid code, a 12-character string that is
\* no code, a short name, a code followed by one more digit, nothing
LineBodies == {"USRC17607839", "12ABCDEFGHIJ", "notanisrc", "USRC176078391", ""}

\* names of directory entries
NameBodies == LineBodies \ {""}

\* the texts of at most n newline-terminated lines
RECURSIVE TextsOf(_, _)
TextsOf(bodies, n) ==
    IF n = 0 THEN {""}
    ELSE LET prev == TextsOf(bodies, n - 1)
         IN prev \cup {t \o b \o NL : t \in prev, b \in bodies}

\* input files: the last line may lack its newline
InputTexts ==
    TextsOf(LineBodies, MaxLines)
      \cup {t \o b : t \in TextsOf(LineBodies, MaxLines - 1), b \in NameBodies}

DirListings == TextsOf(NameBodies, MaxLines)

\* what a file left by an earlier run holds; a run starts with all of the
\* program's output files left by an earlier run, or with none
OLD == "old\n"

NoDir == ""

Unset == "unset"

\* the variables a direct call of validate_isrc uses, at rest
ValidateIdle == v_arg = "" /\ v_ret = Unset

InitLocals ==
    /\ pc = "start"
    /\ input_file = Unset
    /\ rm_input_file = FALSE
    /\ lines = <<>>
    /\ idx = 0
    /\ valid_isrcs = ""
    /\ invalid_isrcs = ""
    /\ cpt_invalid = 0
    /\ written = {}
    /\ diag = ""
    /\ today = 0
    /\ years = <<>>
    /\ year_file = Unset
    /\ isrc = <<>>
    /\ country_file = Unset

\* values of -i and -o, the defaults first; "corpus" is a directory
InputFileArgs == <<"isrc.txt", VALID, "corpus">>
OutputFileArgs == <<"ISRC_invalid.txt", VALID, TMP, "isrc.txt">>

\* python isrc.py [-i input_file] [-o output_file]
InitFileMode ==
    /\ \E i \in 1..Len(InputFileArgs), o \in 1..Len(OutputFileArgs) :
          args = [input_file |-> InputFileArgs[i], output_file |-> OutputFileArgs[o],
                  dir_input |-> NoDir]
    /\ \E src \in {NoFile} \cup {File(t) : t \in InputTexts},
          old \in {NoFile, File(OLD)} :
          \* isrc.txt varies when it is the input
          /\ args.input_file # "isrc.txt" => src = NoFile
          /\ fs = [p \in Paths |->
                     CASE p = "isrc.txt" -> src
                       [] p = "ISRC_invalid.txt" -> old
                       [] p = VALID -> old
                       [] p = TMP -> old
                       [] OTHER -> Dir("")]

\* python isrc.py -d dir_input [-o output_file]
InitDirMode ==
    /\ \E d \in {"corpus", "isrc.txt"}, o \in 1..Len(OutputFileArgs) :
          args = [input_file |-> "isrc.txt", output_file |-> OutputFileArgs[o],
                  dir_input |-> d]
    /\ \E dir \in {NoFile} \cup {Dir(t) : t \in DirListings},
          src \in {NoFile, File("USRC17607839\n12ABCDEFGHIJ\n")},
          old \in {NoFile, File(OLD)} :
          fs = [p \in Paths |->
                  CASE p = "isrc.txt" -> src
                    [] p = "ISRC_invalid.txt" -> old
                    [] p = VALID -> old
                    [] p = TMP -> old
                    [] OTHER -> dir]

Init ==
    /\ InitFileMode \/ InitDirMode
    /\ fs0 = fs
    /\ InitLocals
    /\ ValidateIdle

(***************************************************************************)
(* validate_isrcs, one action per step between two I/O operations.         *)
(***************************************************************************)
scanVars == <<lines, idx, valid_isrcs, invalid_isrcs, cpt_invalid>>
reportVars == <<today, years, year_file, isrc, country_file>>
callVars == <<v_arg, v_ret>>

\* lines 238-259, directory mode: abs_path_dir, then `ls dir > tmpISRCs.txt`
StartDir ==
    /\ pc = "start"
    /\ args.dir_input # NoDir
    /\ IF abs_path_dir_ok(fs, args.dir_input)
       THEN /\ fs' = [fs EXCEPT ![TMP] = File(LsOutput(fs, args.dir_input))]
            /\ written' = written \cup {TMP}
            /\ input_file' = TMP
            /\ rm_input_file' = TRUE
            /\ pc' = "open"
            /\ diag' = diag
       ELSE /\ diag' = "Invalid directory name: " \o args.dir_input
            /\ pc' = "exit"
            /\ UNCHANGED <<fs, written, input_file, rm_input_file>>
    /\ UNCHANGED <<args, fs0, scanVars, reportVars, callVars>>

\* lines 238-259, file mode: os.path.isfile(input_file) or print_error
StartFile ==
    /\ pc = "start"
    /\ args.dir_input = NoDir
    /\ IF isfile(fs, args.input_file)
       THEN /\ input_file' = args.input_file
            /\ pc' = "open"
            /\ diag' = diag
       ELSE /\ diag' = "Invalid input file"
            /\ pc' = "exit"
            /\ input_file' = input_file
    /\ UNCHANGED <<args, fs, fs0, written, rm_input_file, scanVars, reportVars,
                   callVars>>

\* line 260: open(input_file, "r"); the iterator will yield the file's lines
OpenInput ==
    /\ pc = "open"
    /\ lines' = SplitLines(fs[input_file].data)
    /\ idx' = 0
    /\ pc' = "loop"
    /\ UNCHANGED <<args, fs, fs0, input_file, rm_input_file, valid_isrcs,
                   invalid_isrcs, cpt_invalid, written, diag, reportVars, callVars>>

\* an IOError or OSError nothing catches ends the program with a traceback
Raise ==
    /\ pc' = "io_error"
    /\ UNCHANGED <<args, fs, fs0, input_file, rm_input_file, scanVars, written,
                   diag, reportVars, callVars>>

\* line 260: open fails (the file cannot be read)
OpenInputFails == pc = "open" /\ Raise

\* lines 262-267: one turn of the loop
ScanLine ==
    /\ pc = "loop"
    /\ idx < Len(lines)
    /\ LET line == lines[idx + 1] IN
         /\ valid_isrcs' = NextValid(valid_isrcs, line)
         /\ invalid_isrcs' = NextInvalid(invalid_isrcs, line)
         /\ cpt_invalid' = NextCpt(cpt_invalid, line)
    /\ idx' = idx + 1
    /\ UNCHANGED <<args, fs, fs0, pc, input_file, rm_input_file, lines, written,
                   diag, reportVars, callVars>>

\* lines 269-272: close, and remove the temporary listing
CloseInput ==
    /\ pc = "loop"
    /\ idx = Len(lines)
    /\ fs' = IF rm_input_file THEN [fs EXCEPT ![input_file] = NoFile] ELSE fs
    /\ pc' = "write_valid"
    /\ UNCHANGED <<args, fs0, input_file, rm_input_file, scanVars, written, diag,
                   reportVars, callVars>>

\* line 272: os.remove fails
RemoveFails == pc = "loop" /\ idx = Len(lines) /\ rm_input_file /\ Raise

\* lines 274-276: ISRC_valid.txt is opened for writing and written
WriteValid ==
    /\ pc = "write_valid"
    /\ fs' = [fs EXCEPT ![VALID] = File(valid_isrcs)]
    /\ written' = written \cup {VALID}
    /\ pc' = "write_invalid"
    /\ UNCHANGED <<args, fs0, input_file, rm_input_file, scanVars, diag,
                   reportVars, callVars>>

\* line 274: open("ISRC_valid.txt", "w") fails
WriteValidFails == pc = "write_valid" /\ Raise

\* (variant: the invalid-output file is written whatever was found)
MustWriteInvalid_always(inv) == TRUE
\* the test of line 278
MustWriteInvalid(inv) == Len(inv) # 0

\* lines 278-285: the invalid lines are written if there are any
WriteInvalid ==
    /\ pc = "write_invalid"
    /\ IF MustWriteInvalid(invalid_isrcs)
       THEN /\ fs' = [fs EXCEPT ![args.output_file] = File(invalid_isrcs)]
            /\ written' = written \cup {args.output_file}
       ELSE UNCHANGED <<fs, written>>
    /\ pc' = "year"
    /\ UNCHANGED <<args, fs0, input_file, rm_input_file, scanVars, diag,
                   reportVars, callVars>>

\* line 280: open(output_file, "w") fails
WriteInvalidFails ==
    pc = "write_invalid" /\ MustWriteInvalid(invalid_isrcs) /\ Raise

(***************************************************************************)
(* The reports of the main sequence, lines 314 and 315.                    *)
(***************************************************************************)
\* the file name main passes to plot_isrc_country_repartition
CountryReportFile == args.input_file

\* line 314: plot_isrc_year_distribution() reads its default, ISRC_valid.txt
YearReport ==
    /\ pc = "year"
    /\ year_file' = VALID
    /\ LET rows == [i \in 1..Len(SplitLines(fs[VALID].data)) |->
                        CsvRow(SplitLines(fs[VALID].data)[i])]
       IN IF Len(rows) > 0 /\ \A i \in 1..Len(rows) : RowOK(rows[i])
          THEN \E cur \in {MinYear, MaxYear} :
                  /\ today' = cur
                  /\ years' = [i \in 1..Len(rows) |-> BucketYear(rows[i][1], cur)]
                  /\ pc' = "country"
          ELSE \* IndexError, ValueError of int(), or min() of an empty list
               /\ pc' = "report_error"
               /\ UNCHANGED <<today, years>>
    /\ UNCHANGED <<args, fs, fs0, input_file, rm_input_file, scanVars, written,
                   diag, isrc, country_file, callVars>>

\* line 315: plot_isrc_country_repartition(input_file); the table of country
\* codes it opens first is taken to be in place
CountryReport ==
    /\ pc = "country"
    /\ IF isfile(fs, CountryReportFile)
       THEN /\ country_file' = CountryReportFile
            /\ isrc' = [i \in 1..Len(SplitLines(fs[CountryReportFile].data)) |->
                          Slice(SplitLines(fs[CountryReportFile].data)[i], 0, 2)]
            /\ pc' = "end"
       ELSE \* open raises
            /\ pc' = "report_error"
            /\ UNCHANGED <<isrc, country_file>>
    /\ UNCHANGED <<args, fs, fs0, input_file, rm_input_file, scanVars, written,
                   diag, today, years, year_file, callVars>>

Next ==
    \/ StartDir
    \/ StartFile
    \/ OpenInput
    \/ OpenInputFails
    \/ ScanLine
    \/ CloseInput
    \/ RemoveFails
    \/ WriteValid
    \/ WriteValidFails
    \/ WriteInvalid
    \/ WriteInvalidFails
    \/ YearReport
    \/ CountryReport

Spec == Init /\ [][Next]_vars

(***************************************************************************)
(* validate_isrc called directly, on strings of any length.                *)
(***************************************************************************)
\* the variables of a run of the script, at rest
ScriptIdle ==
    /\ args = [input_file |-> "isrc.txt", output_file |-> "ISRC_invalid.txt",
               dir_input |-> NoDir]
    /\ fs = [p \in Paths |-> NoFile]
    /\ fs0 = fs
    /\ input_file = Unset
    /\ rm_input_file = FALSE
    /\ lines = <<>>
    /\ idx = 0
    /\ valid_isrcs = ""
    /\ invalid_isrcs = ""
    /\ cpt_invalid = 0
    /\ written = {}
    /\ diag = ""
    /\ years = <<>>
    /\ year_file = Unset
    /\ isrc = <<>>
    /\ country_file = Unset

Template == "AzB7c01234567890"

Prefix(n) == Slice(Template, 0, n)

\* s with the character at 1-based position i replaced by c
Replace(s, i, c) == SubSeq(s, 1, i - 1) \o c \o SubSeq(s, i + 1, Len(s))

\* characters on and next to the borders of the ranges a-z, A-Z and 0-9
EdgeChars == {"A", "Z", "a", "z", "0", "9", "@", "[", "^", "{", "/", ":", ".", "-", NL}

\* the template cut to every length, then one character replaced by any
\* character, or two characters by a letter, a digit or a dot
TestStrings ==
    UNION { {Prefix(n)}
              \cup {Replace(Prefix(n), i, c) : i \in 1..n, c \in EdgeChars}
              \cup {Replace(Replace(Prefix(n), i, c), j, d) :
                        i \in 1..n, j \in 1..n, c \in {"q", "5", "."}, d \in {"q", "5", "."}}
          : n \in 0..MaxLen }

InitValidate ==
    /\ ScriptIdle
    /\ today = 0
    /\ pc = "call"
    /\ v_arg \in TestStrings
    /\ v_ret = Unset

\* lines 218-230
CallValidate ==
    /\ pc = "call"
    /\ v_ret' = validate_isrc(v_arg)
    /\ pc' = "returned"
    /\ UNCHANGED <<args, fs, fs0, input_file, rm_input_file, scanVars, written,
                   diag, reportVars, v_arg>>

NextValidate == CallValidate

SpecValidate == InitValidate /\ [][NextValidate]_vars

(***************************************************************************)
(* The year bucketing on every year field, in every year of the range.     *)
(***************************************************************************)
DigitChars == {SubSeq(Digits, i, i) : i \in 1..10}

YearCodes == {"USRC1" \o d1 \o d2 \o "07839" : d1 \in DigitChars, d2 \in DigitChars}

InitYear ==
    /\ ScriptIdle
    /\ today \in MinYear..MaxYear
    /\ pc = "call"
    /\ v_arg \in YearCodes
    /\ v_ret = Unset

\* lines 189-193 on the one row of a file holding v_arg
CallBucketYear ==
    /\ pc = "call"
    /\ years' = <<BucketYear(CsvRow(v_arg \o NL)[1], today)>>
    /\ pc' = "bucketed"
    /\ UNCHANGED <<args, fs, fs0, input_file, rm_input_file, scanVars, written,
                   diag, today, year_file, isrc, country_file, callVars>>

NextYear == CallBucketYear

SpecYear == InitYear /\ [][NextYear]_vars

(***************************************************************************)
(* Vocabulary of the properties, stated without the model's operators.     *)
(***************************************************************************)
UpperLetters == "ABCDEFGHIJKLMNOPQRSTUVWXYZ"
LowerLetters == "abcdefghijklmnopqrstuvwxyz"

IsAsciiLetter(c) ==
    \E i \in 1..26 : SubSeq(UpperLetters, i, i) = c \/ SubSeq(LowerLetters, i, i) = c

IsAsciiDigit(c) == c \in {"0", "1", "2", "3", "4", "5", "6", "7", "8", "9"}

\* 2 letters, 3 letters or digits, 7 digits, and nothing else
WellFormedISRC(s) ==
    /\ Len(s) = 12
    /\ \A i \in 1..2 : IsAsciiLetter(SubSeq(s, i, i))
    /\ \A i \in 3..5 : IsAsciiLetter(SubSeq(s, i, i)) \/ IsAsciiDigit(SubSeq(s, i, i))
    /\ \A i \in 6..12 : IsAsciiDigit(SubSeq(s, i, i))

First12(line) == IF Len(line) <= 12 THEN line ELSE SubSeq(line, 1, 12)

EndsWithNL(line) == Len(line) > 0 /\ SubSeq(line, Len(line), Len(line)) = NL

\* the records of a text: its lines
Records(text) == SplitLines(text)

RecordSet(text) == LET recs == Records(text) IN {recs[i] : i \in 1..Len(recs)}

\* the scan has got to the loop, and the scan has run to its end
ScanStarted == pc \in {"loop", "write_valid", "write_invalid", "year", "country",
                       "end", "report_error"}
ScanCompleted == pc \in {"year", "country", "end", "report_error"}

\* a line of exactly 13 characters whose first 12 are a well-formed code
Accepted(line) == Len(line) = 13 /\ WellFormedISRC(First12(line))
Rejected(line) == ~Accepted(line)

\* the input path is invalid, as the claim C7 words it
InvalidInputPath ==
    IF args.dir_input # NoDir
    THEN fs0[args.dir_input].kind \in {"none", "file"}
    ELSE fs0[args.input_file].kind # "file"

(***************************************************************************)
(* C1.                                                                     *)
(***************************************************************************)
\* C1: validate_isrc(s) is truthy if and only if s has exactly 12 characters:
\* 2 ASCII letters, 3 ASCII letters or digits, 7 ASCII digits; it returns a
\* value (a match, None or False) for every string.
C1_ValidateIffWellFormed ==
    pc = "returned" =>
        /\ v_ret \in {"Match", "None", "False"}
        /\ Truthy(v_ret) <=> WellFormedISRC(v_arg)

\* a 13-character string that starts with a well-formed code was rejected
C1_Witness ==
    /\ pc = "returned"
    /\ Len(v_arg) = 13
    /\ WellFormedISRC(First12(v_arg))
    /\ ~Truthy(v_ret)

C3_RecordsAreSlices ==
    ScanCompleted =>
        /\ \A r \in RecordSet(fs[VALID].data) :
              Len(r) = 13 /\ EndsWithNL(r) /\ Truthy(validate_isrc(First12(r)))
        /\ args.output_file \in written =>
              \A r \in RecordSet(fs[args.output_file].data) :
                  Len(r) = 13 /\ EndsWithNL(r)

\* C3 amended: after a completed scan whose invalid-output path is not
\* ISRC_valid.txt, every record of ISRC_valid.txt is a raw input line of
\* exactly 13 characters whose first 12 pass validate_isrc, and only the
\* last line of the input may be stored without a newline; a written
\* invalid-output file holds raw input lines that were rejected, whatever
\* their length.
C3_RecordsAreRawLines ==
    (ScanCompleted /\ args.output_file # VALID) =>
        /\ fs[VALID].data = valid_isrcs
        /\ \A r \in RecordSet(fs[VALID].data) :
              /\ Len(r) = 13
              /\ Truthy(validate_isrc(First12(r)))
              /\ \E i \in 1..Len(lines) : lines[i] = r
              /\ ~EndsWithNL(r) => r = lines[Len(lines)]
        /\ cpt_invalid > 0 =>
              /\ fs[args.output_file].data = invalid_isrcs
              /\ \A r \in RecordSet(fs[args.output_file].data) :
                    /\ \E i \in 1..Len(lines) : lines[i] = r
                    /\ Rejected(r)

\* a scan stored a 13-character last line with no newline as valid, and a
\* line that is not 13 characters long as invalid
C3_Witness ==
    /\ ScanCompleted
    /\ args.output_file # VALID
    /\ \E r \in RecordSet(fs[VALID].data) : ~EndsWithNL(r)
    /\ cpt_invalid > 0
    /\ \E r \in RecordSet(fs[args.output_file].data) : Len(r) # 13

(***************************************************************************)
(* C4.                                                                     *)
(***************************************************************************)
\* the number of the lines read that are equal to line
TimesRead(line) == Cardinality({i \in 1..idx : lines[i] = line})

\* the number of records of text that are equal to line
TimesIn(text, line) ==
    LET recs == Records(text) IN Cardinality({i \in 1..Len(recs) : recs[i] = line})

\* C4: at every point of a scan and at its end, the entries of the valid
\* and of the invalid accumulator are together as many as the lines read,
\* cpt_invalid is the number of entries of the invalid accumulator, and
\* every line read is in exactly one of the two, as often as it was read.
C4_EveryLineInExactlyOne ==
    ScanStarted =>
        /\ Len(Records(valid_isrcs)) + Len(Records(invalid_isrcs)) = idx
        /\ cpt_invalid = Len(Records(invalid_isrcs))
        /\ LET valid == RecordSet(valid_isrcs)
               invalid == RecordSet(invalid_isrcs)
           IN \A i \in 1..idx :
                /\ ~(lines[i] \in valid /\ lines[i] \in invalid)
                /\ TimesIn(valid_isrcs, lines[i]) + TimesIn(invalid_isrcs, lines[i])
                     = TimesRead(lines[i])

\* a scan is over that read three lines, a valid one and the same invalid
\* line twice
C4_Witness ==
    /\ pc = "write_valid"
    /\ idx = 3
    /\ cpt_invalid = 2
    /\ Len(Records(valid_isrcs)) = 1
    /\ lines[1] = lines[3]
    /\ Len(lines[2]) = 13

(***************************************************************************)
(* C5.                                                                     *)
(***************************************************************************)
\* C5 as claimed: after a completed scan the records of ISRC_valid.txt are
\* the input lines classified valid, in input order, and the records of a
\* written invalid-output file are the input lines classified invalid, in
\* input order.
C5_OutputInInputOrder ==
    ScanCompleted =>
        /\ Records(fs[VALID].data) = SelectSeq(lines, Accepted)
        /\ cpt_invalid > 0 =>
              Records(fs[args.output_file].data) = SelectSeq(lines, Rejected)

\* C5 amended: the same, for every scan whose invalid-output path is not
\* ISRC_valid.txt.
C5_OutputInInputOrderDistinctPaths ==
    (ScanCompleted /\ args.output_file # VALID) =>
        /\ Records(fs[VALID].data) = SelectSeq(lines, Accepted)
        /\ cpt_invalid > 0 =>
              Records(fs[args.output_file].data) = SelectSeq(lines, Rejected)

\* a completed scan wrote two different valid lines and two different
\* invalid lines that alternated in the input
C5_Witness ==
    /\ ScanCompleted
    /\ args.output_file # VALID
    /\ Len(lines) = 3
    /\ Accepted(lines[1]) /\ Rejected(lines[2]) /\ Accepted(lines[3])
    /\ lines[1] # lines[3]
    /\ Len(Records(fs[VALID].data)) = 2

(***************************************************************************)
(* C6.                                                                     *)
(***************************************************************************)
\* C6 as claimed: a completed scan has written ISRC_valid.txt, has written
\* the invalid-output file if and only if a candidate was classified
\* invalid, and with no invalid candidate the invalid-output path is as it
\* was before the run.
C6_WritesValidAlwaysInvalidIfAny ==
    ScanCompleted =>
        /\ VALID \in written
        /\ args.output_file \in written <=> cpt_invalid > 0
        /\ cpt_invalid = 0 => fs[args.output_file] = fs0[args.output_file]

\* C6 amended: the same, for every scan whose invalid-output path is not
\* ISRC_valid.txt and, in directory mode, not tmpISRCs.txt.
C6_WritesValidAlwaysInvalidIfAnyDistinctPaths ==
    (/\ ScanCompleted
     /\ args.output_file # VALID
     /\ ~(args.dir_input # NoDir /\ args.output_file = TMP)) =>
        /\ VALID \in written
        /\ fs[VALID] = File(valid_isrcs)
        /\ args.output_file \in written <=> cpt_invalid > 0
        /\ cpt_invalid > 0 => fs[args.output_file] = File(invalid_isrcs)
        /\ cpt_invalid = 0 => fs[args.output_file] = fs0[args.output_file]

\* a completed scan of valid lines only left an older invalid-output file
\* as it was
C6_Witness ==
    /\ ScanCompleted
    /\ args.output_file = "ISRC_invalid.txt"
    /\ idx > 0
    /\ cpt_invalid = 0
    /\ fs0[args.output_file] = File(OLD)
    /\ fs[args.output_file] = File(OLD)
    /\ fs[VALID] = File(valid_isrcs)

(***************************************************************************)
(* C7.                                                                     *)
(***************************************************************************)
\* C7: with an invalid input path the program, once started, has stopped
\* with a diagnostic, has read no candidate and has created, written or
\* changed no file.
C7_InvalidInputPathChangesNothing ==
    (InvalidInputPath /\ pc # "start") =>
        /\ pc = "exit"
        /\ diag # ""
        /\ lines = <<>> /\ idx = 0
        /\ written = {}
        /\ fs = fs0

\* the program stopped on a -d argument that names a regular file, with
\* older output files in place
C7_Witness ==
    /\ pc = "exit"
    /\ args.dir_input # NoDir
    /\ fs0[args.dir_input].kind = "file"
    /\ fs[TMP] = File(OLD)
    /\ fs[VALID] = File(OLD)

(***************************************************************************)
(* C8.                                                                     *)
(***************************************************************************)
\* C8 as claimed: a scan that an I/O failure ended has written no output
\* file; in particular ISRC_valid.txt is never rewritten by a scan that
\* then fails to write its invalid-output file.
C8_NoPartialFailure ==
    pc = "io_error" => VALID \notin written

(***************************************************************************)
(* C9.                                                                     *)
(***************************************************************************)
\* the country prefixes of the records of a text
PrefixesOf(text) == [i \in 1..Len(Records(text)) |-> Slice(Records(text)[i], 0, 2)]

\* C9 as claimed: when the main sequence has run both reports, the year
\* report has read ISRC_valid.txt and the country report has counted the
\* prefixes of the records of ISRC_valid.txt, so only of candidates that
\* passed validation.
C9_ReportsCountValidOnly ==
    pc = "end" => (year_file = VALID /\ isrc = PrefixesOf(fs[VALID].data))

(***************************************************************************)
(* C10.                                                                    *)
(***************************************************************************)
\* the year field of a code, characters 6 and 7, as a number
YY(code) == 10 * DigitValue(SubSeq(code, 6, 6)) + DigitValue(SubSeq(code, 7, 7))

\* C10 as claimed: the bucketed year is 2000+YY if that is not after the
\* current year C and 1900+YY otherwise; it is never after C and lies in
\* the 100 years that end with C.
C10_BucketInWindowEveryYear ==
    pc = "bucketed" =>
        /\ years[1] = IF 2000 + YY(v_arg) <= today THEN 2000 + YY(v_arg)
                      ELSE 1900 + YY(v_arg)
        /\ years[1] <= today
        /\ years[1] >= today - 99

\* C10 amended: the bucketed year is 2000+YY if that is not after the
\* current year C and 1900+YY otherwise; for 1999 <= C <= 2099 it is never
\* after C and lies in the 100 years that end with C.
C10_BucketInWindowThisCentury ==
    pc = "bucketed" =>
        /\ years[1] = IF 2000 + YY(v_arg) <= today THEN 2000 + YY(v_arg)
                      ELSE 1900 + YY(v_arg)
        /\ (1999 <= today /\ today <= 2099) =>
              (years[1] <= today /\ years[1] >= today - 99)

\* in 2024 the year field 99 was bucketed as 1999
C10_Witness ==
    /\ pc = "bucketed"
    /\ today = 2024
    /\ YY(v_arg) = 99
    /\ years[1] = 1999

====
